---- MODULE Spec2Model ----
(***************************************************************************)
(* Model of scoring/score.py: the entry point main, the syntax validator   *)
(* check_alloy_syntax and the equivalence scorer compute_alloy_diff_score, *)
(* together with the two external java processes they run and the tmp and  *)
(* output entries of the working directory.                                *)
(***************************************************************************)
EXTENDS Integers, Sequences, FiniteSets, TLC

\* Longest captured stdout and longest captured stderr of the diff process.
MaxLen == 2

\* Characters of a captured stream, and the marker searched for in it.
Chars == {"e", "q"}
MARKER == <<"e", "q">>

\* Paths that can be given on the command line, and the two tool artifacts.
Paths == {"a.als", "b.als"}
JAR_PATH == "alloy-diff.jar"
ALLOY_TOOLS_JAR == "org.alloytools.alloy.dist.jar"

\* len(sys.argv) of a run, and the argument count main accepts.
ArgCounts == {2, 3, 4}
ExpectedArgc == 3

\* Exit codes of an external process.
ExitCodes == {0, 1}

\* The two working-directory entries the validator removes, and what an
\* entry of that name can be: nothing, a directory, or a regular file.
Entries == {"tmp", "output"}
Kinds == {"absent", "dir", "file"}

\* Concurrent callers of check_alloy_syntax in one working directory.
Jobs == {"job1", "job2"}

VARIABLES
    argc,            \* len(sys.argv)
    original_file,   \* sys.argv[1]
    generated_file,  \* sys.argv[2]
    present,         \* the files for which Path.exists() is true
    fs,              \* kind of the entries tmp and output
    pc,              \* position of each caller
    file_path,       \* argument of each caller's check_alloy_syntax call
    phase,           \* block of check_alloy_syntax a caller's cleanup runs in
    run,             \* how each caller's exec process ended
    synRes,          \* outcome of each caller's check_alloy_syntax call
    alive,           \* external processes currently running
    spawned,         \* every external process started so far, in order
    made,            \* entries each caller's running exec tool has written
    clobbered,       \* callers whose running tool lost an entry it wrote
    diff,            \* how the diff process ended, with its captured output
    eqRes,           \* outcome of the compute_alloy_diff_score call
    stdout_lines,    \* lines main printed to standard output
    stderr_lines,    \* lines main printed to standard error
    exit_status      \* <<>> while main runs, then <<status>>

vars == <<argc, original_file, generated_file, present, fs, pc, file_path,
          phase, run, synRes, alive, spawned, made, clobbered, diff, eqRes,
          stdout_lines, stderr_lines, exit_status>>

mainVars == <<argc, original_file, generated_file, diff, eqRes,
              stdout_lines, stderr_lines, exit_status>>

----------------------------------------------------------------------------
\* Values

NoExc == [type |-> "none", what |-> "none", path |-> "none"]

FileNotFound(what, path) ==
    [type |-> "FileNotFoundError", what |-> what, path |-> path]

RmtreeError(type, e) == [type |-> type, what |-> "rmtree", path |-> e]

Pending == [kind |-> "pending", score |-> 0, max_score |-> 0, exc |-> NoExc]

Returned(s) == [kind |-> "return", score |-> s, max_score |-> 1, exc |-> NoExc]

Raised(x) == [kind |-> "raise", score |-> 0, max_score |-> 0, exc |-> x]

NotRun == [how |-> "none", returncode |-> <<>>]

NoDiff == [how |-> "none", stdout |-> <<>>, stderr |-> <<>>, returncode |-> <<>>]

Texts == UNION {[1..k -> Chars] : k \in 0..MaxLen}

\* needle in hay, for strings as sequences of characters
Contains(needle, hay) ==
    \E i \in 0..(Len(hay) - Len(needle)) :
        SubSeq(hay, i + 1, i + Len(needle)) = needle

----------------------------------------------------------------------------
\* check_alloy_syntax, run by caller t

ChkPc(e) == IF e = "tmp" THEN "chk_tmp" ELSE "chk_output"

RmPc(e) == IF e = "tmp" THEN "rm_tmp" ELSE "rm_output"

Exec(t) == <<t, "exec">>

\* The return statement that ends the block the caller is in.
BlockScore(t) ==
    IF phase[t] = "try" /\ run[t].returncode = <<0>> THEN 1 ELSE 0

\* The target file does not exist: score 0, before anything else is looked at.
VTargetMissing(t) ==
    /\ pc[t] = "v_start"
    /\ file_path[t] \notin present
    /\ synRes' = [synRes EXCEPT ![t] = Returned(0)]
    /\ pc' = [pc EXCEPT ![t] = "v_ret"]
    /\ UNCHANGED <<present, fs, file_path, phase, run, alive, spawned, made,
                   clobbered, mainVars>>

\* The target file exists and the tool artifact does not.
VJarMissing(t) ==
    /\ pc[t] = "v_start"
    /\ file_path[t] \in present
    /\ ALLOY_TOOLS_JAR \notin present
    /\ synRes' = [synRes EXCEPT ![t] =
                    Raised(FileNotFound("Alloy tools JAR not found at",
                                        ALLOY_TOOLS_JAR))]
    /\ pc' = [pc EXCEPT ![t] = "v_ret"]
    /\ UNCHANGED <<present, fs, file_path, phase, run, alive, spawned, made,
                   clobbered, mainVars>>

\* subprocess.run starts the exec tool.
VSpawn(t) ==
    /\ pc[t] = "v_start"
    /\ file_path[t] \in present
    /\ ALLOY_TOOLS_JAR \in present
    /\ alive' = alive \cup {Exec(t)}
    /\ spawned' = Append(spawned, Exec(t))
    /\ pc' = [pc EXCEPT ![t] = "v_run"]
    /\ UNCHANGED <<present, fs, file_path, phase, run, synRes, made,
                   clobbered, mainVars>>

\* subprocess.run raises before a process exists (java cannot be started).
VLaunchFail(t) ==
    /\ pc[t] = "v_start"
    /\ file_path[t] \in present
    /\ ALLOY_TOOLS_JAR \in present
    /\ run' = [run EXCEPT ![t] = [how |-> "launchfail", returncode |-> <<>>]]
    /\ phase' = [phase EXCEPT ![t] = "except"]
    /\ pc' = [pc EXCEPT ![t] = "chk_tmp"]
    /\ UNCHANGED <<present, fs, file_path, synRes, alive, spawned, made,
                   clobbered, mainVars>>

\* The running exec tool writes its working directory e.
ToolWrites(t, e) ==
    /\ Exec(t) \in alive
    /\ fs[e] # "file"
    /\ e \notin made[t] \/ fs[e] = "absent"
    /\ fs' = [fs EXCEPT ![e] = "dir"]
    /\ made' = [made EXCEPT ![t] = @ \cup {e}]
    /\ UNCHANGED <<present, pc, file_path, phase, run, synRes, alive, spawned,
                   clobbered, mainVars>>

\* The exec tool exits with code c within the timeout.
ToolExit(t, c) ==
    /\ pc[t] = "v_run"
    /\ Exec(t) \in alive
    /\ alive' = alive \ {Exec(t)}
    /\ run' = [run EXCEPT ![t] = [how |-> "exit", returncode |-> <<c>>]]
    /\ phase' = [phase EXCEPT ![t] = "try"]
    /\ pc' = [pc EXCEPT ![t] = "chk_tmp"]
    /\ made' = [made EXCEPT ![t] = {}]
    /\ UNCHANGED <<present, fs, file_path, synRes, spawned, clobbered,
                   mainVars>>

\* ToolTimeout without the kill: the timed-out tool keeps running.
ToolTimeoutNoKill(t) ==
    /\ pc[t] = "v_run"
    /\ Exec(t) \in alive
    /\ run' = [run EXCEPT ![t] = [how |-> "timeout", returncode |-> <<>>]]
    /\ phase' = [phase EXCEPT ![t] = "timeout"]
    /\ pc' = [pc EXCEPT ![t] = "chk_tmp"]
    /\ UNCHANGED <<present, fs, file_path, synRes, alive, spawned, made,
                   clobbered, mainVars>>

\* The timeout elapses: subprocess.run kills the tool, raises TimeoutExpired.
ToolTimeout(t) ==
    /\ pc[t] = "v_run"
    /\ Exec(t) \in alive
    /\ alive' = alive \ {Exec(t)}
    /\ run' = [run EXCEPT ![t] = [how |-> "timeout", returncode |-> <<>>]]
    /\ phase' = [phase EXCEPT ![t] = "timeout"]
    /\ pc' = [pc EXCEPT ![t] = "chk_tmp"]
    /\ made' = [made EXCEPT ![t] = {}]
    /\ UNCHANGED <<present, fs, file_path, synRes, spawned, clobbered,
                   mainVars>>

\* subprocess.run raises another exception while the tool runs (its output
\* cannot be decoded as text): the tool is killed, the exception is raised.
ToolError(t) ==
    /\ pc[t] = "v_run"
    /\ Exec(t) \in alive
    /\ alive' = alive \ {Exec(t)}
    /\ run' = [run EXCEPT ![t] = [how |-> "error", returncode |-> <<>>]]
    /\ phase' = [phase EXCEPT ![t] = "except"]
    /\ pc' = [pc EXCEPT ![t] = "chk_tmp"]
    /\ made' = [made EXCEPT ![t] = {}]
    /\ UNCHANGED <<present, fs, file_path, synRes, spawned, clobbered,
                   mainVars>>

\* What follows the cleanup of entry e: the cleanup of output, or the return.
AfterEntry(t, e) ==
    IF e = "tmp"
    THEN /\ pc' = [pc EXCEPT ![t] = "chk_output"]
         /\ UNCHANGED synRes
    ELSE /\ pc' = [pc EXCEPT ![t] = "v_ret"]
         /\ synRes' = [synRes EXCEPT ![t] = Returned(BlockScore(t))]

\* if Path(e).exists()
VExists(t, e) ==
    /\ pc[t] = ChkPc(e)
    /\ IF fs[e] # "absent"
       THEN /\ pc' = [pc EXCEPT ![t] = RmPc(e)]
            /\ UNCHANGED synRes
       ELSE AfterEntry(t, e)
    /\ UNCHANGED <<present, fs, file_path, phase, run, alive, spawned, made,
                   clobbered, mainVars>>

\* The callers whose running tool has written e.
Users(t, e) == {u \in (DOMAIN pc) \ {t} : Exec(u) \in alive /\ e \in made[u]}

\* VRmtree with an ownership check: a directory that the running tool of
\* another caller has written is left in place.
VRmtreeOwned(t, e) ==
    /\ pc[t] = RmPc(e)
    /\ IF fs[e] = "dir"
       THEN /\ fs' = IF Users(t, e) = {} THEN [fs EXCEPT ![e] = "absent"]
                                       ELSE fs
            /\ AfterEntry(t, e)
            /\ UNCHANGED <<phase, clobbered>>
       ELSE /\ UNCHANGED <<fs, clobbered>>
            /\ IF phase[t] = "try"
               THEN /\ phase' = [phase EXCEPT ![t] = "except"]
                    /\ pc' = [pc EXCEPT ![t] = "chk_tmp"]
                    /\ UNCHANGED synRes
               ELSE /\ synRes' = [synRes EXCEPT ![t] =
                          Raised(RmtreeError(
                              IF fs[e] = "file" THEN "NotADirectoryError"
                                                ELSE "FileNotFoundError", e))]
                    /\ pc' = [pc EXCEPT ![t] = "v_ret"]
                    /\ UNCHANGED phase
    /\ UNCHANGED <<present, file_path, run, alive, spawned, made, mainVars>>

\* shutil.rmtree(e): removes a directory whoever wrote it; raises on a
\* regular file and on an entry that is gone.  An exception in the try block
\* is handled by the except Exception block; one in a handler leaves the call.
VRmtree(t, e) ==
    /\ pc[t] = RmPc(e)
    /\ IF fs[e] = "dir"
       THEN /\ fs' = [fs EXCEPT ![e] = "absent"]
            /\ clobbered' = clobbered \cup Users(t, e)
            /\ AfterEntry(t, e)
            /\ UNCHANGED phase
       ELSE /\ UNCHANGED <<fs, clobbered>>
            /\ IF phase[t] = "try"
               THEN /\ phase' = [phase EXCEPT ![t] = "except"]
                    /\ pc' = [pc EXCEPT ![t] = "chk_tmp"]
                    /\ UNCHANGED synRes
               ELSE /\ synRes' = [synRes EXCEPT ![t] =
                          Raised(RmtreeError(
                              IF fs[e] = "file" THEN "NotADirectoryError"
                                                ELSE "FileNotFoundError", e))]
                    /\ pc' = [pc EXCEPT ![t] = "v_ret"]
                    /\ UNCHANGED phase
    /\ UNCHANGED <<present, file_path, run, alive, spawned, made, mainVars>>

----------------------------------------------------------------------------
\* compute_alloy_diff_score, run by main

Diff == <<"main", "diff">>

\* DiffPrecondition with the tool artifact checked before the generated file.
DiffPreconditionJarFirst(orig, gen, files) ==
    IF orig \notin files
    THEN FileNotFound("Original file not found", orig)
    ELSE IF JAR_PATH \notin files
    THEN FileNotFound("Alloy Diff JAR not found at", JAR_PATH)
    ELSE IF gen \notin files
    THEN FileNotFound("Generated file not found", gen)
    ELSE NoExc

\* DiffPrecondition with the message of the second check naming the first file.
DiffPreconditionWrongName(orig, gen, files) ==
    IF orig \notin files
    THEN FileNotFound("Original file not found", orig)
    ELSE IF gen \notin files
    THEN FileNotFound("Generated file not found", orig)
    ELSE IF JAR_PATH \notin files
    THEN FileNotFound("Alloy Diff JAR not found at", JAR_PATH)
    ELSE NoExc

\* The precondition checks, in the order of the code: the exception raised,
\* or NoExc when the three files exist.
DiffPrecondition(orig, gen, files) ==
    IF orig \notin files
    THEN FileNotFound("Original file not found", orig)
    ELSE IF gen \notin files
    THEN FileNotFound("Generated file not found", gen)
    ELSE IF JAR_PATH \notin files
    THEN FileNotFound("Alloy Diff JAR not found at", JAR_PATH)
    ELSE NoExc

\* Equivalent looking at standard output only.
EquivalentStdoutOnly(out, err) == Contains(MARKER, out)

\* "The two modules are equivalent." in result.stdout + result.stderr
Equivalent(out, err) == Contains(MARKER, out \o err)

\* A precondition check fails: the error leaves the call.
SRaise ==
    /\ pc["main"] = "s_start"
    /\ DiffPrecondition(original_file, generated_file, present) # NoExc
    /\ eqRes' = Raised(DiffPrecondition(original_file, generated_file, present))
    /\ pc' = [pc EXCEPT !["main"] = "s_ret"]
    /\ UNCHANGED <<argc, original_file, generated_file, present, fs, file_path,
                   phase, run, synRes, alive, spawned, made, clobbered, diff,
                   stdout_lines, stderr_lines, exit_status>>

\* subprocess.run starts the diff tool.
SSpawn ==
    /\ pc["main"] = "s_start"
    /\ DiffPrecondition(original_file, generated_file, present) = NoExc
    /\ alive' = alive \cup {Diff}
    /\ spawned' = Append(spawned, Diff)
    /\ pc' = [pc EXCEPT !["main"] = "s_run"]
    /\ UNCHANGED <<present, fs, file_path, phase, run, synRes, made, clobbered,
                   mainVars>>

\* subprocess.run raises before a process exists: except Exception, score 0.
SLaunchFail ==
    /\ pc["main"] = "s_start"
    /\ DiffPrecondition(original_file, generated_file, present) = NoExc
    /\ diff' = [NoDiff EXCEPT !.how = "launchfail"]
    /\ eqRes' = Returned(0)
    /\ pc' = [pc EXCEPT !["main"] = "s_ret"]
    /\ UNCHANGED <<argc, original_file, generated_file, present, fs, file_path,
                   phase, run, synRes, alive, spawned, made, clobbered,
                   stdout_lines, stderr_lines, exit_status>>

\* The diff tool exits with code c within the timeout, having written out to
\* its standard output and err to its standard error.
DiffExit(out, err, c) ==
    /\ pc["main"] = "s_run"
    /\ Diff \in alive
    /\ alive' = alive \ {Diff}
    /\ diff' = [how |-> "exit", stdout |-> out, stderr |-> err,
                returncode |-> <<c>>]
    /\ eqRes' = Returned(IF Equivalent(out, err) THEN 1 ELSE 0)
    /\ pc' = [pc EXCEPT !["main"] = "s_ret"]
    /\ UNCHANGED <<argc, original_file, generated_file, present, fs, file_path,
                   phase, run, synRes, spawned, made, clobbered,
                   stdout_lines, stderr_lines, exit_status>>

\* The timeout elapses: the diff tool is killed, TimeoutExpired gives score 0.
DiffTimeout ==
    /\ pc["main"] = "s_run"
    /\ Diff \in alive
    /\ alive' = alive \ {Diff}
    /\ diff' = [NoDiff EXCEPT !.how = "timeout"]
    /\ eqRes' = Returned(0)
    /\ pc' = [pc EXCEPT !["main"] = "s_ret"]
    /\ UNCHANGED <<argc, original_file, generated_file, present, fs, file_path,
                   phase, run, synRes, spawned, made, clobbered,
                   stdout_lines, stderr_lines, exit_status>>

\* subprocess.run raises another exception while the diff tool runs: the tool
\* is killed, except Exception gives score 0.
DiffError ==
    /\ pc["main"] = "s_run"
    /\ Diff \in alive
    /\ alive' = alive \ {Diff}
    /\ diff' = [NoDiff EXCEPT !.how = "error"]
    /\ eqRes' = Returned(0)
    /\ pc' = [pc EXCEPT !["main"] = "s_ret"]
    /\ UNCHANGED <<argc, original_file, generated_file, present, fs, file_path,
                   phase, run, synRes, spawned, made, clobbered,
                   stdout_lines, stderr_lines, exit_status>>

----------------------------------------------------------------------------
\* main

UsageLine == [kind |-> "usage", score |-> 0, max_score |-> 0, exc |-> NoExc]

ErrorLine(x) == [kind |-> "Error", score |-> 0, max_score |-> 0, exc |-> x]

ScoreLine(label, r) ==
    [kind |-> label, score |-> r.score, max_score |-> r.max_score, exc |-> NoExc]

\* len(sys.argv) != 3: the usage message, status 1.
MainUsage ==
    /\ pc["main"] = "m_start"
    /\ argc # ExpectedArgc
    /\ stderr_lines' = Append(stderr_lines, UsageLine)
    /\ exit_status' = <<1>>
    /\ pc' = [pc EXCEPT !["main"] = "m_exit"]
    /\ UNCHANGED <<argc, original_file, generated_file, present, fs, file_path,
                   phase, run, synRes, alive, spawned, made, clobbered, diff,
                   eqRes, stdout_lines>>

\* check_alloy_syntax(generated_file) is called.
MainCallSyntax ==
    /\ pc["main"] = "m_start"
    /\ argc = ExpectedArgc
    /\ file_path' = [file_path EXCEPT !["main"] = generated_file]
    /\ pc' = [pc EXCEPT !["main"] = "v_start"]
    /\ UNCHANGED <<present, fs, phase, run, synRes, alive, spawned, made,
                   clobbered, mainVars>>

\* check_alloy_syntax returned: compute_alloy_diff_score is called.
MainCallDiff ==
    /\ pc["main"] = "v_ret"
    /\ synRes["main"].kind = "return"
    /\ pc' = [pc EXCEPT !["main"] = "s_start"]
    /\ UNCHANGED <<present, fs, file_path, phase, run, synRes, alive, spawned,
                   made, clobbered, mainVars>>

\* MainError printing the syntax line as soon as the syntax result is known.
MainErrorPrintsSyntax ==
    /\ \/ pc["main"] = "v_ret" /\ synRes["main"].kind = "raise"
       \/ pc["main"] = "s_ret" /\ eqRes.kind = "raise"
    /\ stdout_lines' =
          IF synRes["main"].kind = "return"
          THEN Append(stdout_lines, ScoreLine("Syntax Valid", synRes["main"]))
          ELSE stdout_lines
    /\ stderr_lines' = Append(stderr_lines,
          ErrorLine(IF pc["main"] = "v_ret" THEN synRes["main"].exc
                                            ELSE eqRes.exc))
    /\ exit_status' = <<1>>
    /\ pc' = [pc EXCEPT !["main"] = "m_exit"]
    /\ UNCHANGED <<argc, original_file, generated_file, present, fs, file_path,
                   phase, run, synRes, alive, spawned, made, clobbered, diff,
                   eqRes>>

\* An exception left one of the two calls: Error line, status 1.
MainError ==
    /\ \/ pc["main"] = "v_ret" /\ synRes["main"].kind = "raise"
       \/ pc["main"] = "s_ret" /\ eqRes.kind = "raise"
    /\ stderr_lines' = Append(stderr_lines,
          ErrorLine(IF pc["main"] = "v_ret" THEN synRes["main"].exc
                                            ELSE eqRes.exc))
    /\ exit_status' = <<1>>
    /\ pc' = [pc EXCEPT !["main"] = "m_exit"]
    /\ UNCHANGED <<argc, original_file, generated_file, present, fs, file_path,
                   phase, run, synRes, alive, spawned, made, clobbered, diff,
                   eqRes, stdout_lines>>

\* Both calls returned: the two score lines, status 0.
MainPrint ==
    /\ pc["main"] = "s_ret"
    /\ eqRes.kind = "return"
    /\ stdout_lines' = stdout_lines \o
          <<ScoreLine("Syntax Valid", synRes["main"]),
            ScoreLine("Equivalence Score", eqRes)>>
    /\ exit_status' = <<0>>
    /\ pc' = [pc EXCEPT !["main"] = "m_exit"]
    /\ UNCHANGED <<argc, original_file, generated_file, present, fs, file_path,
                   phase, run, synRes, alive, spawned, made, clobbered, diff,
                   eqRes, stderr_lines>>

----------------------------------------------------------------------------
\* Specifications

Files == Paths \cup {JAR_PATH, ALLOY_TOOLS_JAR}

InitCallers(T) ==
    /\ phase = [t \in T |-> "none"]
    /\ run = [t \in T |-> NotRun]
    /\ synRes = [t \in T |-> Pending]
    /\ made = [t \in T |-> {}]
    /\ alive = {}
    /\ spawned = <<>>
    /\ clobbered = {}
    /\ diff = NoDiff
    /\ eqRes = Pending
    /\ stdout_lines = <<>>
    /\ stderr_lines = <<>>
    /\ exit_status = <<>>

\* One run of the program, on any command line and any working directory.
Init ==
    /\ argc \in ArgCounts
    /\ original_file \in Paths
    /\ generated_file \in Paths
    /\ present \in SUBSET Files
    /\ fs \in [Entries -> Kinds]
    /\ pc = [t \in {"main"} |-> "m_start"]
    /\ file_path = [t \in {"main"} |-> "none"]
    /\ InitCallers({"main"})

Next ==
    \/ MainUsage
    \/ MainCallSyntax
    \/ \E t \in DOMAIN pc : VTargetMissing(t)
    \/ \E t \in DOMAIN pc : VJarMissing(t)
    \/ \E t \in DOMAIN pc : VSpawn(t)
    \/ \E t \in DOMAIN pc : VLaunchFail(t)
    \/ \E t \in DOMAIN pc : \E e \in Entries : ToolWrites(t, e)
    \/ \E t \in DOMAIN pc : \E c \in ExitCodes : ToolExit(t, c)
    \/ \E t \in DOMAIN pc : ToolTimeout(t)
    \/ \E t \in DOMAIN pc : ToolError(t)
    \/ \E t \in DOMAIN pc : \E e \in Entries : VExists(t, e)
    \/ \E t \in DOMAIN pc : \E e \in Entries : VRmtree(t, e)
    \/ MainCallDiff
    \/ SRaise
    \/ SSpawn
    \/ SLaunchFail
    \/ \E out \in Texts, err \in Texts, c \in ExitCodes : DiffExit(out, err, c)
    \/ DiffTimeout
    \/ DiffError
    \/ MainError
    \/ MainPrint

Spec == Init /\ [][Next]_vars

\* Two calls of check_alloy_syntax, by two callers in one working directory.
InitConc ==
    /\ argc = ExpectedArgc
    /\ original_file \in Paths
    /\ generated_file \in Paths
    /\ present \in SUBSET Files
    /\ fs \in [Entries -> Kinds]
    /\ pc = [t \in Jobs |-> "v_start"]
    /\ file_path \in [Jobs -> {original_file, generated_file}]
    /\ InitCallers(Jobs)

NextConc ==
    \/ \E t \in DOMAIN pc : VTargetMissing(t)
    \/ \E t \in DOMAIN pc : VJarMissing(t)
    \/ \E t \in DOMAIN pc : VSpawn(t)
    \/ \E t \in DOMAIN pc : VLaunchFail(t)
    \/ \E t \in DOMAIN pc : \E e \in Entries : ToolWrites(t, e)
    \/ \E t \in DOMAIN pc : \E c \in ExitCodes : ToolExit(t, c)
    \/ \E t \in DOMAIN pc : ToolTimeout(t)
    \/ \E t \in DOMAIN pc : ToolError(t)
    \/ \E t \in DOMAIN pc : \E e \in Entries : VExists(t, e)
    \/ \E t \in DOMAIN pc : \E e \in Entries : VRmtree(t, e)

SpecConc == InitConc /\ [][NextConc]_vars

----------------------------------------------------------------------------
\* Properties

Range(s) == {s[i] : i \in 1..Len(s)}

\* check_alloy_syntax of caller t has ended.
ValidatorDone(t) == synRes[t].kind # "pending"

\* compute_alloy_diff_score has ended.
ScorerDone == eqRes.kind # "pending"

\* The marker occurs in the captured output of the diff process.
MarkerSeen ==
    LET all == diff.stdout \o diff.stderr
    IN  \E i \in 1..(Len(all) - 1) : all[i] = "e" /\ all[i + 1] = "q"

\* C1: when a call of check_alloy_syntax has ended, whatever path it took,
\* neither tmp nor output is a directory of the working directory.
C1_NoDirsAfterCall ==
    \A t \in DOMAIN pc :
        pc[t] = "v_ret" => fs["tmp"] # "dir" /\ fs["output"] # "dir"

\* C2 as stated: the scorer's error priority is original file, tool artifact,
\* generated file; with the original present and the artifact absent the
\* error is the missing-artifact error, also when the generated file is
\* absent too.
C2_ArtifactBeforeGenerated ==
    ScorerDone =>
        /\ original_file \notin present =>
              eqRes.kind = "raise" /\ eqRes.exc.path = original_file
        /\ original_file \in present /\ JAR_PATH \notin present =>
              eqRes.kind = "raise" /\ eqRes.exc.path = JAR_PATH

\* C2 amended: the scorer's error priority is original file, generated file,
\* tool artifact; with the original present the missing-artifact error is
\* raised only when the generated file exists, and a missing generated file
\* is reported whether or not the artifact exists.
C2_GeneratedBeforeArtifact ==
    ScorerDone =>
        /\ original_file \notin present =>
              eqRes.kind = "raise" /\ eqRes.exc.path = original_file
        /\ original_file \in present /\ generated_file \notin present =>
              eqRes.kind = "raise" /\ eqRes.exc.path = generated_file
        /\ /\ original_file \in present
           /\ generated_file \in present
           /\ JAR_PATH \notin present
           => eqRes.kind = "raise" /\ eqRes.exc.path = JAR_PATH

C2_Witness ==
    /\ ScorerDone
    /\ original_file \in present
    /\ generated_file \notin present
    /\ JAR_PATH \notin present
    /\ eqRes.exc.what = "Generated file not found"

\* C3: every exception that leaves the scorer or the validator is a
\* missing-file or missing-artifact error; a failure of the external process
\* or of the step after it (the removal of tmp and output included) ends in
\* a returned score.
C3_OnlyMissingErrorsPropagate ==
    /\ eqRes.kind = "raise" =>
          /\ eqRes.exc.type = "FileNotFoundError"
          /\ eqRes.exc.path \in {original_file, generated_file, JAR_PATH}
          /\ eqRes.exc.path \notin present
    /\ \A t \in DOMAIN pc :
          synRes[t].kind = "raise" =>
              /\ synRes[t].exc.what = "Alloy tools JAR not found at"
              /\ synRes[t].exc.path = ALLOY_TOOLS_JAR
              /\ run[t].how = "none"

\* C4: with the execution-tool artifact absent, a call of check_alloy_syntax
\* ends in a file-not-found error and starts no process, for every target
\* path, also one that does not exist.
C4_MissingToolAlwaysRaises ==
    \A t \in DOMAIN pc :
        ValidatorDone(t) /\ ALLOY_TOOLS_JAR \notin present =>
            /\ synRes[t].kind = "raise"
            /\ synRes[t].exc.type = "FileNotFoundError"
            /\ Exec(t) \notin Range(spawned)

\* C5: with the original or the generated file absent, the scorer raises a
\* file-not-found error whose message names a file that is missing, under
\* the label of that file, and no diff process is ever started.
C5_MissingInputRaises ==
    original_file \notin present \/ generated_file \notin present =>
        /\ Diff \notin Range(spawned)
        /\ diff.how = "none"
        /\ ScorerDone =>
              /\ eqRes.kind = "raise"
              /\ eqRes.exc.type = "FileNotFoundError"
              /\ eqRes.exc.path \notin present
              /\ \/ /\ eqRes.exc.what = "Original file not found"
                    /\ eqRes.exc.path = original_file
                 \/ /\ eqRes.exc.what = "Generated file not found"
                    /\ eqRes.exc.path = generated_file

C5_Witness ==
    /\ ScorerDone
    /\ original_file \in present
    /\ generated_file \notin present
    /\ eqRes.exc.path = generated_file
    /\ spawned = <<>>

\* C6: with both input files and the diff artifact present, the scorer
\* returns; the score is 1 exactly when the diff process ended within the
\* timeout and its stdout followed by its stderr contains the marker,
\* whatever the exit code, and 0 otherwise; max_score is 1.
C6_ScoreIffMarker ==
    ScorerDone /\ {original_file, generated_file, JAR_PATH} \subseteq present =>
        /\ eqRes.kind = "return"
        /\ eqRes.max_score = 1
        /\ eqRes.score \in {0, 1}
        /\ eqRes.score = 1 <=> (diff.how = "exit" /\ MarkerSeen)

C6_Witness ==
    /\ ScorerDone
    /\ eqRes.score = 1
    /\ diff.returncode = <<1>>
    /\ diff.stdout = <<"e">>
    /\ diff.stderr = <<"q">>

\* C7: with the target file and the execution-tool artifact present, the
\* validator returns a score, which is 1 exactly when the tool exited with
\* code 0 within the timeout and 0 after a non-zero exit, a timeout or an
\* execution error.
C7_ScoreIffExitZero ==
    \A t \in DOMAIN pc :
        ValidatorDone(t) /\ {file_path[t], ALLOY_TOOLS_JAR} \subseteq present =>
            /\ synRes[t].kind = "return"
            /\ synRes[t].max_score = 1
            /\ synRes[t].score = 1 <=>
                  (run[t].how = "exit" /\ run[t].returncode = <<0>>)

\* C8: a run of main with two arguments exits with status 0 exactly when it
\* has printed the Syntax Valid line and then the Equivalence Score line;
\* when an error left either call it has printed one Error line with that
\* error to standard error, its status is 1 and it has printed no score
\* line, also when the syntax result was already computed; nothing is
\* printed to standard output before the exit.
C8_ExitStatus ==
    argc = ExpectedArgc =>
        /\ exit_status = <<>> => stdout_lines = <<>>
        /\ exit_status # <<>> =>
              /\ exit_status = <<0>> <=>
                    /\ Len(stdout_lines) = 2
                    /\ stdout_lines[1] = ScoreLine("Syntax Valid", synRes["main"])
                    /\ stdout_lines[2] = ScoreLine("Equivalence Score", eqRes)
              /\ synRes["main"].kind = "raise" \/ eqRes.kind = "raise" =>
                    /\ exit_status = <<1>>
                    /\ stdout_lines = <<>>
                    /\ stderr_lines =
                          <<ErrorLine(IF eqRes.kind = "raise"
                                      THEN eqRes.exc ELSE synRes["main"].exc)>>

C8_Witness ==
    /\ exit_status = <<1>>
    /\ synRes["main"] = Returned(1)
    /\ eqRes.kind = "raise"
    /\ eqRes.exc.path = original_file
    /\ stdout_lines = <<>>

\* C9: in a run of main at most one external process is alive at any time;
\* the diff process is started only after the validator has returned, its
\* own process (if it started one) having ended or been timed out; and no
\* step of the scorer changes tmp or output.
C9_Sequential ==
    /\ [](/\ Cardinality(alive) <= 1
          /\ Diff \in Range(spawned) =>
                /\ synRes["main"].kind = "return"
                /\ Exec("main") \notin alive
                /\ spawned \in {<<Diff>>, <<Exec("main"), Diff>>})
    /\ [][pc["main"] \in {"s_start", "s_run"} => fs' = fs]_vars

C9_Witness ==
    /\ Diff \in alive
    /\ spawned = <<Exec("main"), Diff>>
    /\ run["main"].how = "timeout"
    /\ fs = [e \in Entries |-> "absent"]

\* C10: the cleanup removes tmp and output by name: a step of one caller's
\* rmtree on a directory that the still running tool of another caller has
\* written removes that directory from under the running tool.
C10_CleanupIgnoresOwner ==
    [][\A t \in DOMAIN pc : \A e \in Entries :
          /\ pc[t] = RmPc(e)
          /\ pc'[t] # pc[t]
          /\ fs[e] = "dir"
          /\ Users(t, e) # {}
          => fs'[e] = "absent" /\ Users(t, e) \subseteq clobbered']_vars

C10_Witness ==
    \E t \in DOMAIN pc : \E u \in clobbered :
        /\ t # u
        /\ Exec(u) \in alive
        /\ made[u] # {}
        /\ \E e \in made[u] : fs[e] = "absent"
        /\ pc[t] \in {"chk_output", "v_ret"}

====
